---- MODULE Spec2Model ----
(***************************************************************************)
(* Profile views counter.                                                  *)
(*                                                                         *)
(* Part I  - AppState (src/src/state.rs): the in-memory view counter, its  *)
(*           mutex, the reconciliation mark behind an RwLock and the       *)
(*           update_loop task that writes the counter to the row store     *)
(*           (src/src/datastore.rs).                                       *)
(* Part II - the request path (src/src/handler.rs), the per-user store     *)
(*           (src/src/datastore/xata.rs) and the badge template cache      *)
(*           (src/src/badge.rs).                                           *)
(***************************************************************************)
EXTENDS Integers, Sequences, FiniteSets, TLC

(***************************************************************************)
(* Bounds                                                                  *)
(***************************************************************************)
\* number of concurrent callers of AppState::update
NumCalls == 3
\* number of iterations of update_loop that the history keeps (the loop itself
\* runs on; iterations after these are not recorded)
MaxTicks == 3
\* largest count the profile_views row holds when the process starts
MaxStoreCount == 1

\* number of requests profile_views_handler serves
NumRequests == 3

Calls == 1..NumCalls
StoreCounts == 0..MaxStoreCount
Requests == 1..NumRequests

VARIABLES
    \* ---- Part I ----
    db_count,       \* profile_views.count, the row behind Datastore
    app,            \* "boot" | "running" | "failed": result of AppState::initialize;
                    \* "closed" once AppState::destroy has returned
    views,          \* AppState.views   (Mutex<u64>)
    prev_views,     \* AppState.prev_views (RwLock<u64>)
    views_lock,     \* holder of the views mutex: "none" | "update_loop"
    prev_lock,      \* state of the prev_views RwLock: "none" | "read" | "write"
    loop_pc,        \* position of update_loop inside one iteration
    inflight,       \* argument of the db.update_views call in flight, 0 when none
    ret,            \* ret[c]: value AppState::update returned to caller c, 0 = not yet called
    initial,        \* history: the count AppState::initialize read
    writes,         \* history: values passed to Datastore::update_views, in order
    ticks,          \* history: one record per iteration of update_loop
    \* ---- Part II ----
    table,          \* the Xata table: table[u] = count of user u's record, 0 = no record
    cache,          \* Shields.cache: HashMap<String, String> as a function key -> template
    cache_readers,  \* the requests that hold a read guard of Shields.cache while
                    \* they wait for something else
    req             \* req[r]: the state of request r inside profile_views_handler

state_vars == <<db_count, app, views, prev_views, views_lock, prev_lock,
                loop_pc, inflight, ret, initial, writes, ticks>>

badge_vars == <<table, cache, cache_readers, req>>

vars == <<state_vars, badge_vars>>

(***************************************************************************)
(* Part I: AppState                                                        *)
(***************************************************************************)

InitState ==
    /\ db_count \in StoreCounts
    /\ app = "boot"
    /\ views = 0
    /\ prev_views = 0
    /\ views_lock = "none"
    /\ prev_lock = "none"
    /\ loop_pc = "idle"
    /\ inflight = 0
    /\ ret = [c \in Calls |-> 0]
    /\ initial = 0
    /\ writes = <<>>
    /\ ticks = <<>>
    \* the request path of Part II is not running in Part I
    /\ table = <<>>
    /\ cache = <<>>
    /\ cache_readers = {}
    /\ req = <<>>

\* variant of Initialize: a failed read falls back to a count of 0
Initialize_default ==
    /\ app = "boot"
    /\ \E read_ok \in BOOLEAN :
          /\ app' = "running"
          /\ views' = (IF read_ok THEN db_count ELSE 0)
          /\ prev_views' = (IF read_ok THEN db_count ELSE 0)
          /\ initial' = (IF read_ok THEN db_count ELSE 0)
    /\ UNCHANGED <<inflight, db_count, views_lock, prev_lock, loop_pc, ret, writes, ticks>>
    /\ UNCHANGED badge_vars

\* AppState::initialize: db.get_views() answers Ok(count) or Err.  The row holds
\* a count >= 0 (StoreCounts), for which `count as u64` keeps the value.
Initialize ==
    /\ app = "boot"
    /\ \E read_ok \in BOOLEAN :
          IF read_ok
          THEN /\ app' = "running"
               /\ views' = db_count
               /\ prev_views' = db_count
               /\ initial' = db_count
          ELSE /\ app' = "failed"
               /\ UNCHANGED <<views, prev_views, initial>>
    /\ UNCHANGED <<inflight, db_count, views_lock, prev_lock, loop_pc, ret, writes, ticks>>
    /\ UNCHANGED badge_vars

\* the callers of AppState::update are numbered in the order in which the views
\* mutex serves them (the tokio Mutex is first in, first out)
NextCaller(c) == ret[c] = 0 /\ \A d \in Calls : d < c => ret[d] # 0

\* variant of Update: the increment is computed from a value read earlier and
\* written back without the mutex (read-modify-write race)
Update_stale(c) ==
    /\ app = "running"
    /\ NextCaller(c)
    /\ \E seen \in {views, prev_views} :
          /\ views' = seen + 1
          /\ ret' = [ret EXCEPT ![c] = seen + 1]
    /\ UNCHANGED <<inflight, db_count, app, prev_views, views_lock, prev_lock, loop_pc,
                   initial, writes, ticks>>
    /\ UNCHANGED badge_vars

\* AppState::update: lock, *views += 1, return *views, unlock
Update(c) ==
    /\ app = "running"
    /\ NextCaller(c)
    /\ views_lock = "none"
    /\ views' = views + 1
    /\ ret' = [ret EXCEPT ![c] = views + 1]
    /\ UNCHANGED <<inflight, db_count, app, prev_views, views_lock, prev_lock, loop_pc,
                   initial, writes, ticks>>
    /\ UNCHANGED badge_vars

\* update_loop, line 50-51: the interval fires, prev_views.read().  The task
\* spawned in main outlives destroy.
LoopTick ==
    /\ app \in {"running", "closed"}
    /\ loop_pc = "idle"
    /\ prev_lock = "none"
    /\ prev_lock' = "read"
    /\ loop_pc' = "lock_views"
    /\ UNCHANGED <<inflight, db_count, app, views, prev_views, views_lock, ret, initial,
                   writes, ticks>>
    /\ UNCHANGED badge_vars

\* update_loop, line 52: views.lock()
LoopLockViews ==
    /\ loop_pc = "lock_views"
    /\ views_lock = "none"
    /\ views_lock' = "update_loop"
    /\ loop_pc' = "compare"
    /\ UNCHANGED <<inflight, db_count, app, views, prev_views, prev_lock, ret, initial,
                   writes, ticks>>
    /\ UNCHANGED badge_vars

\* variant of NoNewUpdates: the comparison never reports equality
NoNewUpdates_never(current_views, mark) == current_views < mark

\* line 54: *current_views == *prev_views
NoNewUpdates(current_views, mark) == current_views = mark

\* the history keeps the first MaxTicks iterations of update_loop
Log(log, entry) == IF Len(ticks) < MaxTicks THEN Append(log, entry) ELSE log

\* variant of DropReadGuard: the read guard stays alive while write() is awaited
DropReadGuard_kept(lock) == lock

\* line 62: drop(prev_views), the read guard is given away before write()
DropReadGuard(lock) == "none"

\* update_loop, line 54-62: compare; either `continue` (both guards dropped) or
\* drop the read guard
LoopCompare ==
    /\ loop_pc = "compare"
    /\ IF NoNewUpdates(views, prev_views)
       THEN /\ loop_pc' = "idle"
            /\ views_lock' = "none"
            /\ prev_lock' = "none"
            /\ ticks' = Log(ticks, [seen |-> views, mark_before |-> prev_views,
                                    mark_after |-> prev_views, wrote |-> FALSE,
                                    value |-> 0, ok |-> FALSE, open |-> FALSE,
                                    nw |-> Len(writes)])
       ELSE /\ loop_pc' = "upgrade"
            /\ prev_lock' = DropReadGuard(prev_lock)
            /\ UNCHANGED <<views_lock, ticks>>
    /\ UNCHANGED <<inflight, db_count, app, views, prev_views, ret, initial, writes>>
    /\ UNCHANGED badge_vars

\* variant of NewMark: the mark runs one ahead of the counter
NewMark_ahead(current_views, mark) == current_views + 1

\* variant of NewMark: the mark is left where it was
NewMark_stale(current_views, mark) == mark

\* line 65: *prev_views = *current_views
NewMark(current_views, mark) == current_views

\* variant of WriteValue: every intermediate value is flushed, one per tick
WriteValue_next(current_views, mark) == mark + 1

\* line 67: the argument of db.update_views, *current_views as i64
WriteValue(current_views, mark) == current_views

\* update_loop, line 64-67: prev_views.write(), *prev_views = *current_views,
\* and db.update_views(*current_views) is issued
LoopMarkAndWrite ==
    /\ loop_pc = "upgrade"
    /\ prev_lock = "none"
    /\ prev_lock' = "write"
    /\ prev_views' = NewMark(views, prev_views)
    /\ inflight' = WriteValue(views, prev_views)
    /\ writes' = Log(writes, WriteValue(views, prev_views))
    /\ ticks' = Log(ticks, [seen |-> views, mark_before |-> prev_views,
                            mark_after |-> prev_views', wrote |-> TRUE,
                            value |-> WriteValue(views, prev_views),
                            ok |-> FALSE, open |-> TRUE,
                            nw |-> Len(writes) + 1])
    /\ loop_pc' = "writing"
    /\ UNCHANGED <<db_count, app, views, views_lock, ret, initial>>
    /\ UNCHANGED badge_vars

\* variant of UpdateViews: a failed statement leaves the row at 0
UpdateViews_reset(count, value, ok) == IF ok THEN value ELSE 0

\* Datastore::update_views: UPDATE profile_views SET count = $1
UpdateViews(count, value, ok) == IF ok THEN value ELSE count

\* variant of WriteReturn: a failed store write rolls the counter back to the
\* store's count
WriteReturnViews_rollback(count, current_views, ok) ==
    IF ok THEN current_views ELSE count

\* line 67-79: neither outcome of update_views touches *current_views
WriteReturnViews(count, current_views, ok) == current_views

\* outcomes of a query on the pool: a closed pool hands out no connection
WriteOutcomes == IF app = "closed" THEN {FALSE} ELSE BOOLEAN

\* update_loop, line 67-79: update_views returns Ok or Err (only logged), the
\* iteration ends and both guards are dropped
LoopWriteReturn ==
    /\ loop_pc = "writing"
    /\ \E ok \in WriteOutcomes :
          /\ db_count' = UpdateViews(db_count, inflight, ok)
          /\ ticks' = IF ticks # <<>> /\ ticks[Len(ticks)].open
                       THEN [ticks EXCEPT ![Len(ticks)].ok = ok,
                                          ![Len(ticks)].open = FALSE]
                       ELSE ticks
          /\ views' = WriteReturnViews(db_count, views, ok)
    /\ inflight' = 0
    /\ views_lock' = "none"
    /\ prev_lock' = "none"
    /\ loop_pc' = "idle"
    /\ UNCHANGED <<app, prev_views, ret, initial, writes>>
    /\ UNCHANGED badge_vars

\* variant of Destroy: shutdown flushes the counter before closing the pool
Destroy_flush ==
    /\ app = "running"
    /\ loop_pc # "writing"
    /\ app' = "closed"
    /\ db_count' = views
    /\ prev_views' = views
    /\ UNCHANGED <<views, views_lock, prev_lock, loop_pc, inflight, ret, initial,
                   writes, ticks>>
    /\ UNCHANGED badge_vars

\* AppState::destroy, called by main once the server has stopped serving:
\* db.close_connection(), which returns when no query holds a connection
Destroy ==
    /\ app = "running"
    /\ loop_pc # "writing"
    /\ app' = "closed"
    /\ UNCHANGED <<db_count, views, prev_views, views_lock, prev_lock, loop_pc,
                   inflight, ret, initial, writes, ticks>>
    /\ UNCHANGED badge_vars

NextState ==
    \/ Initialize
    \/ \E c \in Calls : Update(c)
    \/ LoopTick
    \/ LoopLockViews
    \/ LoopCompare
    \/ LoopMarkAndWrite
    \/ LoopWriteReturn
    \/ Destroy

Spec == InitState /\ [][NextState]_vars

\* the interval of update_loop keeps firing, the runtime keeps polling the
\* spawned task (each lock it waits for is released after finitely many steps)
\* and every query on the pool returns
Fairness ==
    /\ WF_vars(LoopTick)
    /\ WF_vars(LoopLockViews)
    /\ WF_vars(LoopCompare)
    /\ WF_vars(LoopMarkAndWrite)
    /\ WF_vars(LoopWriteReturn)

SpecLive == InitState /\ [][NextState]_vars /\ Fairness

\* a call to AppState::update that waits for the views mutex gets it: the tokio
\* Mutex hands the lock to its waiters in the order they arrived
FairnessOfMutex == \A c \in Calls : SF_vars(Update(c))

SpecFair == InitState /\ [][NextState]_vars /\ Fairness /\ FairnessOfMutex

(***************************************************************************)
(* Part I: properties                                                      *)
(***************************************************************************)
DoneCalls == {c \in Calls : ret[c] # 0}

\* ticks i and i+1 are two consecutive iterations of update_loop, both finished
ConsecutiveTicks ==
    {i \in 1..(Len(ticks) - 1) : ~ticks[i + 1].open}

\* C1: whatever the interleaving of the calls to AppState::update with each other
\* and with the ticks of update_loop, views equals the count read by initialize
\* plus the number of calls made, and the calls returned pairwise distinct values
\* initial+1 .. initial+N.
C1_NoLostUpdates ==
    app = "running" =>
        /\ views = initial + Cardinality(DoneCalls)
        /\ \A c, d \in DoneCalls : c # d => ret[c] # ret[d]
        /\ {ret[c] : c \in DoneCalls}
              = (initial + 1)..(initial + Cardinality(DoneCalls))

\* C1 witness: all NumCalls calls returned and ticks (one with a write) ran among them
C1_Witness ==
    /\ DoneCalls = Calls
    /\ Len(writes) >= 1
    /\ Len(ticks) >= 2
    /\ views = initial + NumCalls

\* C2: prev_views (ReconciliationMark) never exceeds views (ViewCount).
C2_MarkAtMostViews == prev_views <= views

\* C2 witness: a tick whose store write failed has completed and the counter has
\* moved on since
C2_Witness ==
    /\ loop_pc = "idle"
    /\ \E i \in 1..Len(ticks) : ticks[i].wrote /\ ~ticks[i].ok
    /\ prev_views < views
    /\ prev_views > initial

\* C3: a tick whose store write failed is followed by a tick that issues a store
\* write of the then-current views, whether or not views was incremented between
\* the two ticks.
C3_FailedWriteRetried ==
    \A i \in ConsecutiveTicks :
        (ticks[i].wrote /\ ~ticks[i].ok) =>
            /\ ticks[i + 1].wrote
            /\ ticks[i + 1].value = ticks[i + 1].seen

\* C4: when views has the same value at two consecutive ticks, the second tick
\* issues no store write and leaves prev_views unchanged.
C4_SkipWhenUnchanged ==
    \A i \in ConsecutiveTicks :
        ticks[i].seen = ticks[i + 1].seen =>
            /\ ~ticks[i + 1].wrote
            /\ ticks[i + 1].nw = ticks[i].nw
            /\ ticks[i + 1].mark_after = ticks[i + 1].mark_before

\* C4 witness: a tick that wrote is followed by a tick that saw the same views
C4_Witness ==
    \E i \in ConsecutiveTicks :
        /\ ticks[i].wrote
        /\ ticks[i].seen = ticks[i + 1].seen

\* C5: when views was incremented two or more times between two consecutive
\* ticks, the second tick issues exactly one store write, of the latest views, and
\* no value strictly between the two observed counts is ever written.
C5_CatchUpWritesLatest ==
    \A i \in ConsecutiveTicks :
        ticks[i + 1].seen >= ticks[i].seen + 2 =>
            /\ ticks[i + 1].wrote
            /\ ticks[i + 1].nw = ticks[i].nw + 1
            /\ writes[ticks[i + 1].nw] = ticks[i + 1].seen
            /\ \A j \in 1..Len(writes) :
                  ~(ticks[i].seen < writes[j] /\ writes[j] < ticks[i + 1].seen)

\* C5 witness: two consecutive ticks with at least two increments in between
C5_Witness ==
    \E i \in ConsecutiveTicks : ticks[i + 1].seen >= ticks[i].seen + 2

\* C6: when the initial read fails there is no AppState: no call to update
\* returns, no tick runs and no store write is issued; when it succeeds views
\* starts at the store's count.
C6_InitializeOrNothing ==
    /\ app = "failed" =>
          /\ DoneCalls = {}
          /\ ticks = <<>>
          /\ writes = <<>>
          /\ loop_pc = "idle"
          /\ views_lock = "none"
    \* (below MaxTicks iterations the history of writes is complete)
    /\ (app = "running" /\ writes = <<>> /\ Len(ticks) < MaxTicks) =>
          /\ initial = db_count
          /\ views = db_count + Cardinality(DoneCalls)

\* C6 witness: the initial read failed
C6_Witness == app = "failed"

\* C11: the views mutex is not held while the store write of a tick is in
\* flight: during the write a concurrent call to AppState::update can take the
\* lock and complete.
C11_CounterLockFreeDuringWrite ==
    loop_pc = "writing" =>
        /\ views_lock = "none"
        /\ \A c \in Calls : (app = "running" /\ NextCaller(c)) => ENABLED Update(c)

\* a step of AppState::update
UpdateStep == \E c \in Calls : ret[c] = 0 /\ ret'[c] # 0

\* a step taken once AppState exists moves views by 0 or by 1, and moves it only
\* as a step of AppState::update
ViewsStep ==
    (app = "running" \/ app = "closed") =>
        /\ views' \in {views, views + 1}
        /\ (views' # views) <=> UpdateStep

\* C17: once initialized, views never decreases: every step leaves it unchanged
\* or raises it by exactly one, and only a call to AppState::update changes it
\* (the steps of update_loop, failed store writes and destroy leave it alone).
C17_ViewsMonotone ==
    [][ViewsStep]_vars

\* C17 witness: the counter was incremented, a store write failed and destroy ran
C17_Witness ==
    /\ app = "closed"
    /\ views > initial
    /\ \E i \in 1..Len(ticks) : ticks[i].wrote /\ ~ticks[i].open /\ ~ticks[i].ok

\* a step that closes the connection changes nothing else, and the store's count
\* does not change afterwards
DestroyStep ==
    /\ (app = "running" /\ app' = "closed") =>
          /\ db_count' = db_count
          /\ writes' = writes
          /\ inflight' = inflight
          /\ views' = views
          /\ prev_views' = prev_views
    /\ app = "closed" => db_count' = db_count

\* C18: AppState::destroy only closes the store connection: it issues no store
\* write and leaves views and prev_views unchanged, so the increments made since
\* the last successful write are not persisted by the shutdown (nor after it).
C18_DestroyOnlyCloses ==
    [][DestroyStep]_vars

\* C18 witness: destroy has run while the store was behind the counter, and a
\* store write of update_loop has failed
C18_Witness ==
    /\ app = "closed"
    /\ db_count < views
    /\ \E i \in 1..Len(ticks) : ticks[i].wrote /\ ~ticks[i].open /\ ~ticks[i].ok

\* a store write of update_loop returns Err
WriteFails == loop_pc = "writing" /\ loop_pc' = "idle" /\ db_count' # inflight

\* C19: if from some point on views is no longer incremented and every store
\* write succeeds, then, the ticks being scheduled fairly, the store's count
\* eventually equals views (and stays equal), also when the write that carried
\* the final value of views was the one that failed.
C19_EventuallyPersisted ==
    (<>[](app = "running") /\ <>[][views' = views]_vars /\ <>[][~WriteFails]_vars)
        => <>[](db_count = views)

\* C20: the value a tick writes is the views it saw at the comparison, prev_views
\* is set to that same value before the write is issued, and increments made
\* after the comparison are not part of that write but are written by the next
\* tick.
C20_SnapshotConsistency ==
    /\ \A i \in 1..Len(ticks) :
          ticks[i].wrote => /\ ticks[i].value = ticks[i].seen
                            /\ ticks[i].mark_after = ticks[i].value
    /\ loop_pc = "writing" => (inflight = prev_views /\ inflight <= views)
    /\ \A i \in ConsecutiveTicks :
          (ticks[i].wrote /\ ticks[i + 1].seen > ticks[i].seen) =>
              /\ ticks[i + 1].wrote
              /\ ticks[i + 1].value = ticks[i + 1].seen
              /\ ticks[i + 1].value > ticks[i].value

\* C20 witness: two consecutive ticks wrote, with increments in between
C20_Witness ==
    \E i \in ConsecutiveTicks :
        ticks[i].wrote /\ ticks[i + 1].wrote /\ ticks[i + 1].seen > ticks[i].seen

\* the store's count is never above views, the values passed to update_views
\* grow strictly and the value in flight is not above views
WritesBelowViews ==
    (app = "running" \/ app = "closed") =>
        /\ db_count <= views
        /\ \A i, j \in 1..Len(writes) : i < j => writes[i] < writes[j]
        /\ inflight <= views
        /\ db_count >= initial

\* no step lowers the store's count, and a write that returns leaves in the
\* store either the old count or the value it carried, which is not above views
StoreStep ==
    /\ db_count' >= db_count
    /\ (loop_pc = "writing" /\ loop_pc' = "idle") =>
          (db_count' \in {db_count, inflight} /\ inflight <= views')

\* C25: the values update_loop writes to the store are strictly increasing, every
\* value written is at most views when the write returns, and so the store's
\* count never exceeds views and never moves backwards.
C25_StoreFollowsViews == []WritesBelowViews /\ [][StoreStep]_vars

\* C25 witness: two writes went through one after the other, after which the
\* counter moved on
C25_Witness ==
    /\ Len(writes) >= 2
    /\ \E i \in ConsecutiveTicks :
          ticks[i].wrote /\ ticks[i].ok /\ ticks[i + 1].wrote /\ ticks[i + 1].ok
    /\ db_count = writes[2]
    /\ db_count < views

\* C26: AppState is deadlock-free: with update_loop taking the prev_views read
\* lock, then the views mutex, then the prev_views write lock, and the store
\* call returning, every iteration that started comes to its end, every held
\* lock is released, and every call to AppState::update made while the server
\* runs returns.
C26_DeadlockFree ==
    /\ [](loop_pc = "idle" => (views_lock = "none" /\ prev_lock = "none"))
    /\ (loop_pc # "idle") ~> (loop_pc = "idle")
    /\ (app = "running" /\ DoneCalls # Calls)
          ~> (DoneCalls = Calls \/ app = "closed")

\* C26 witness: update_loop holds both locks during its store write while one
\* call to update has returned and another one has not
C26_Witness ==
    /\ loop_pc = "writing"
    /\ views_lock = "update_loop"
    /\ prev_lock = "write"
    /\ \E c, d \in Calls : ret[c] # 0 /\ ret[d] = 0

(***************************************************************************)
(* Part II: profile_views_handler, Xata, Shields                           *)
(*                                                                         *)
(* Strings are sequences of tokens.  A '*' and a decimal digit are one     *)
(* token each; the fixed pieces of text that contain neither ("label=",    *)
(* "<svg>", ...) are one token each.  The only string operations of the    *)
(* code are concatenation, dropping the last character of a key (always a  *)
(* '*'), equality of keys and str::replace of a run of '*', which read the *)
(* same on tokens as on characters.                                        *)
(***************************************************************************)
Users == {"u1", "u2"}

\* the table when the first request arrives (count 0: the user has no record):
\* nobody is onboarded; or both users are about to reach two digits; or one is
\* about to reach two digits and the other three
Tables ==
    { [u \in Users |-> 0],
      [u \in Users |-> 8],
      [u \in Users |-> IF u = "u1" THEN 8 ELSE 98] }

\* ShieldsIoParams (badge.rs:15-19) taken from the query string
Params ==
    { [label |-> <<"views">>, color |-> <<"green">>, style |-> <<"flat">>],
      [label |-> <<"*">>, color |-> <<"green">>, style |-> <<"flat">>] }

\* what can go wrong between Xata::get_latest_views / onboard_user and the
\* server: no response, a 5xx, or a 400 for another reason than a missing record,
\* whose message names neither the user nor "not found", names only the user,
\* or only says "not found"
StoreFaults == {"none", "client", "bad_request", "bad_request_user",
                "bad_request_not_found", "unavailable"}

BadRequestFaults == {"bad_request", "bad_request_user", "bad_request_not_found"}

\* the 400 response of a fault: what err.message.contains(..) will find in it
BadRequest(count, user, fault) ==
    [count |-> count, kind |-> "status_400",
     names |-> IF fault = "bad_request_user" THEN {user} ELSE {},
     not_found |-> (fault = "bad_request_not_found")]

\* what the shields.io call can answer: no response, 200 with the badge, or a
\* response whose status is not a success
RenderOutcomes == {"network_error", "status_ok", "status_error"}

DigitChar == <<"0", "1", "2", "3", "4", "5", "6", "7", "8", "9">>

\* u64::to_string
RECURSIVE U64ToString(_)
U64ToString(n) ==
    IF n < 10 THEN <<DigitChar[n + 1]>>
    ELSE U64ToString(n \div 10) \o <<DigitChar[(n % 10) + 1]>>

\* views.to_string().chars().map(|_| '*').collect() (badge.rs:35)
Padding(n) == [i \in 1..Len(U64ToString(n)) |-> "*"]

\* ShieldsIoParams::to_query_string_template: (query_string_template, padding)
ToQueryStringTemplate(params, n) ==
    <<  <<"label=">> \o params.label \o <<"&color=">> \o params.color
            \o <<"&style=">> \o params.style \o <<"&message=">> \o Padding(n),
        Padding(n) >>

\* str::replace(from, to): every non-overlapping match, left to right
RECURSIVE ReplaceFrom(_, _, _, _)
ReplaceFrom(str, from, to, i) ==
    IF i > Len(str) THEN <<>>
    ELSE IF i + Len(from) - 1 <= Len(str) /\ SubSeq(str, i, i + Len(from) - 1) = from
         THEN to \o ReplaceFrom(str, from, to, i + Len(from))
         ELSE <<str[i]>> \o ReplaceFrom(str, from, to, i + 1)

\* variant of Replace: only the first match is replaced (str::replacen(.., 1))
Replace_first(str, from, to) ==
    LET at == {i \in 1..(Len(str) - Len(from) + 1) :
                  SubSeq(str, i, i + Len(from) - 1) = from}
    IN  IF at = {} THEN str
        ELSE LET i == CHOOSE j \in at : \A k \in at : j <= k
             IN  SubSeq(str, 1, i - 1) \o to \o SubSeq(str, i + Len(from), Len(str))

Replace(str, from, to) == ReplaceFrom(str, from, to, 1)

\* the body shields.io returns for a query string: a badge that shows the label
\* and the message, laid out for their lengths; or, with a status that is not a
\* success, a body that is no badge
ShieldsIoBody(outcome, params, message) ==
    IF outcome = "status_ok"
    THEN <<"<svg width=", DigitChar[Len(params.label) + Len(message) + 1], ">">>
            \o params.color \o params.style
            \o <<"<title>">> \o params.label \o <<": ">> \o message
            \o <<"</title><text>">> \o params.label
            \o <<"</text><text>">> \o message \o <<"</text></svg>">>
    ELSE <<"Bad Gateway">>

\* variant of OldKey: no key of the cache is matched, nothing is evicted
OldKey_none(key) == <<>>

\* the key update_cache removes: key[..key.len() - 1] (badge.rs:93)
OldKey(key) == SubSeq(key, 1, Len(key) - 1)

\* Shields::update_cache: remove old_key, insert (key, value), under the write lock
UpdateCache(map, key, value) ==
    LET kept == DOMAIN map \ {OldKey(key)}
    IN  [k \in kept \cup {key} |-> IF k = key THEN value ELSE map[k]]

\* variant of XataUpdate: the increment is applied twice
XataUpdate_twice(count, user, fault) ==
    IF fault = "none" /\ count > 0
    THEN [count |-> count + 2, kind |-> "status_200"]
    ELSE [count |-> count, kind |-> "status_500"]

\* the Xata transaction endpoint on an `update` operation with $increment
\* (xata.rs:80-86): [count after, response]
XataUpdate(count, user, fault) ==
    CASE fault = "client" -> [count |-> count, kind |-> "no_response"]
      [] fault = "unavailable" -> [count |-> count, kind |-> "status_500"]
      [] fault \in BadRequestFaults -> BadRequest(count, user, fault)
      [] OTHER ->
            IF count > 0
            THEN [count |-> count + 1, kind |-> "status_200"]
            ELSE [count |-> count, kind |-> "status_400", names |-> {user},
                  not_found |-> TRUE]

\* the Xata transaction endpoint on an `insert` operation with createOnly
\* (xata.rs:87-93)
XataInsert(count, user, fault) ==
    CASE fault = "client" -> [count |-> count, kind |-> "no_response"]
      [] fault = "unavailable" -> [count |-> count, kind |-> "status_500"]
      [] fault \in BadRequestFaults -> BadRequest(count, user, fault)
      [] OTHER ->
            IF count = 0
            THEN [count |-> 1, kind |-> "status_200"]
            ELSE [count |-> count, kind |-> "status_400", names |-> {user},
                  not_found |-> FALSE]

\* variant of GetLatestViewsResult: a 400 that names the user or says "not
\* found" counts as UserNotFound
GetLatestViewsResult_either(resp, user) ==
    CASE resp.kind = "no_response" -> "Client"
      [] resp.kind = "status_200" -> "Ok"
      [] resp.kind = "status_400" ->
            IF user \in resp.names \/ resp.not_found THEN "UserNotFound"
            ELSE "Unexpected"
      [] OTHER -> "Unexpected"

\* Xata::get_latest_views, xata.rs:163-206: the Result it makes of the response
GetLatestViewsResult(resp, user) ==
    CASE resp.kind = "no_response" -> "Client"
      [] resp.kind = "status_200" -> "Ok"
      [] resp.kind = "status_400" ->
            IF user \in resp.names /\ resp.not_found THEN "UserNotFound"
            ELSE "Unexpected"
      [] OTHER -> "Unexpected"

\* Xata::onboard_user, xata.rs:220-239
OnboardUserResult(resp) ==
    CASE resp.kind = "no_response" -> "Client"
      [] resp.kind = "status_200" -> "Ok"
      [] OTHER -> "Unexpected"

\* a request: its position in the handler, the user and BadgeParams it came
\* with, the count it obtained and how it was answered.  A request answered 500
\* because the store failed keeps nothing else but ops; one answered 500 because the
\* render failed keeps its user and count.  ops, wider and after are history: the
\* store operations the request sent, whether the lookup that missed saw the
\* entry one '*' wider, and the keys cached since the request was answered 200;
\* faulted tells whether a store fault was injected into one of its store calls.
NewRequest ==
    [pc |-> "new", user |-> "", params |-> <<>>, views |-> 0, status |-> 0,
     badge |-> <<>>, hit |-> FALSE, called |-> FALSE, outcome |-> "",
     template |-> <<>>, wider |-> FALSE, after |-> {}, ops |-> <<>>,
     faulted |-> FALSE]

InitBadge ==
    /\ table \in Tables
    /\ cache = <<>>
    /\ cache_readers = {}
    /\ req = [r \in Requests |-> NewRequest]
    \* Part I is not running in Part II
    /\ db_count = 0
    /\ app = "boot"
    /\ views = 0
    /\ prev_views = 0
    /\ views_lock = "none"
    /\ prev_lock = "none"
    /\ loop_pc = "idle"
    /\ inflight = 0
    /\ ret = <<>>
    /\ initial = 0
    /\ writes = <<>>
    /\ ticks = <<>>

\* profile_views_handler, handler.rs:30-50: state.db.get_latest_views(user_name)
GetLatestViews(r) ==
    /\ req[r].pc = "new"
    /\ IF r = 1 THEN TRUE ELSE req[r - 1].pc # "new"
    /\ \E u \in Users, p \in Params, fault \in StoreFaults :
          LET resp == XataUpdate(table[u], u, fault)
              res == GetLatestViewsResult(resp, u)
          IN  /\ table' = [table EXCEPT ![u] = resp.count]
              /\ req' = [req EXCEPT ![r] =
                    CASE res = "Ok" ->
                            [@ EXCEPT !.pc = "fetch", !.user = u, !.params = p,
                                      !.views = resp.count,
                                      !.ops = <<"update">>]
                      [] res = "UserNotFound" ->
                            [@ EXCEPT !.pc = "onboard", !.user = u, !.params = p,
                                      !.ops = <<"update">>]
                      [] OTHER ->
                            [@ EXCEPT !.pc = "done", !.status = 500,
                                      !.ops = <<"update">>,
                                      !.faulted = (fault # "none")]]
    /\ UNCHANGED <<cache, cache_readers>>
    /\ UNCHANGED state_vars

\* variant of OnboardUser: after a successful insert the handler calls
\* get_latest_views a second time and renders the count it returns
OnboardUser_retry(r) ==
    /\ req[r].pc = "onboard"
    /\ LET u == req[r].user
           inserted == XataInsert(table[u], u, "none")
           resp == XataUpdate(inserted.count, u, "none")
       IN  /\ table' = [table EXCEPT ![u] = resp.count]
           /\ req' = [req EXCEPT ![r] =
                 [@ EXCEPT !.pc = "fetch", !.views = resp.count,
                           !.ops = <<"update", "insert">>]]
    /\ UNCHANGED <<cache, cache_readers>>
    /\ UNCHANGED state_vars

\* profile_views_handler, handler.rs:32-45: state.db.onboard_user(&user); its
\* Ok(views) is the count that is rendered
OnboardUser(r) ==
    /\ req[r].pc = "onboard"
    /\ \E fault \in StoreFaults :
          LET u == req[r].user
              resp == XataInsert(table[u], u, fault)
              res == OnboardUserResult(resp)
          IN  /\ table' = [table EXCEPT ![u] = resp.count]
              /\ req' = [req EXCEPT ![r] =
                    IF res = "Ok"
                    THEN [@ EXCEPT !.pc = "fetch", !.views = resp.count,
                                   !.ops = <<"update", "insert">>]
                    ELSE [NewRequest EXCEPT !.pc = "done", !.status = 500,
                                            !.ops = <<"update", "insert">>,
                                            !.faulted = (fault # "none")]]
    /\ UNCHANGED <<cache, cache_readers>>
    /\ UNCHANGED state_vars

\* the key Shields::fetch looks up for request r (line 106)
KeyOfFetch(r) == ToQueryStringTemplate(req[r].params, req[r].views)[1]

\* variant of GuardAfterLookup: on a miss the read guard lives on to the end of
\* fetch
GuardAfterLookup_held(r, hit) == IF hit THEN {} ELSE {r}

\* the read guard of request r after its lookup: gone, by the return of line 111
\* on a hit and by drop(cache_reader) of line 114 on a miss
GuardAfterLookup(r, hit) == {}

\* Shields::fetch, badge.rs:106-114: the lookup under the read lock; a hit
\* returns the substituted template (handler.rs:52-64 answers 200 with it), a miss
\* drops the lock and sends the request to shields.io
FetchLookup(r) ==
    /\ req[r].pc = "fetch"
    /\ LET qt == ToQueryStringTemplate(req[r].params, req[r].views)
           query_params == qt[1]
           padding == qt[2]
       IN  IF query_params \in DOMAIN cache
           THEN req' = [req EXCEPT ![r] =
                    [@ EXCEPT !.pc = "done", !.status = 200, !.hit = TRUE,
                              !.template = cache[query_params],
                              !.badge = Replace(cache[query_params], padding,
                                                U64ToString(req[r].views))]]
           ELSE req' = [req EXCEPT ![r] =
                    [@ EXCEPT !.pc = "render", !.called = TRUE,
                              !.wider = (query_params \o <<"*">>) \in DOMAIN cache]]
    /\ cache_readers' = cache_readers
          \cup GuardAfterLookup(r, KeyOfFetch(r) \in DOMAIN cache)
    /\ UNCHANGED <<table, cache>>
    /\ UNCHANGED state_vars

\* variant of RequestMessage: shields.io is asked for the badge of the count
RequestMessage_count(padding, count) == U64ToString(count)

\* the message of the query string sent to shields.io (line 121): url is
\* service_url?query_params, and query_params ends in message=padding
RequestMessage(padding, count) == padding

\* Shields::fetch, badge.rs:122-127: send().await?.text().await? answers; Err is
\* returned to the handler (500), any body that was read is substituted, cached by
\* update_cache (which waits in write() until no guard of the cache is held) and
\* returned
FetchMiss(r) ==
    /\ req[r].pc = "render"
    /\ \E outcome \in RenderOutcomes :
          LET qt == ToQueryStringTemplate(req[r].params, req[r].views)
              query_params == qt[1]
              padding == qt[2]
              badge_template == ShieldsIoBody(outcome, req[r].params,
                                              RequestMessage(padding, req[r].views))
          IN  IF outcome = "network_error"
              THEN /\ req' = [req EXCEPT ![r] =
                        [@ EXCEPT !.pc = "done", !.status = 500,
                                  !.outcome = outcome, !.params = <<>>,
                                  !.wider = FALSE]]
                   /\ cache' = cache
                   /\ cache_readers' = cache_readers \ {r}
              ELSE /\ cache_readers = {}
                   /\ cache_readers' = {}
                   /\ req' = [q \in Requests |->
                        IF q = r
                        THEN [req[q] EXCEPT !.pc = "done", !.status = 200,
                                  !.wider = FALSE,
                                  !.outcome = outcome,
                                  !.template = badge_template,
                                  !.badge = Replace(badge_template, padding,
                                                    U64ToString(req[r].views))]
                        ELSE IF req[q].pc = "done" /\ req[q].status = 200
                        THEN [req[q] EXCEPT !.after = @ \cup {query_params}]
                        ELSE req[q]]
                   /\ cache' = UpdateCache(cache, query_params, badge_template)
    /\ UNCHANGED table
    /\ UNCHANGED state_vars

NextBadge ==
    \/ \E r \in Requests : GetLatestViews(r)
    \/ \E r \in Requests : OnboardUser(r)
    \/ \E r \in Requests : FetchLookup(r)
    \/ \E r \in Requests : FetchMiss(r)

SpecBadge == InitBadge /\ [][NextBadge]_vars

(***************************************************************************)
(* Part II: properties                                                     *)
(***************************************************************************)
\* the cache key of request r (defined once r holds a count)
KeyOf(r) == ToQueryStringTemplate(req[r].params, req[r].views)[1]

\* the part of a key that comes from the BadgeParams alone
PrefixOf(params) ==
    LET qt == ToQueryStringTemplate(params, 0)
    IN  SubSeq(qt[1], 1, Len(qt[1]) - Len(qt[2]))

\* key k is a key of BadgeParams params, of some digit width
IsKeyOf(k, params) ==
    /\ Len(k) > Len(PrefixOf(params))
    /\ SubSeq(k, 1, Len(PrefixOf(params))) = PrefixOf(params)
    /\ \A i \in (Len(PrefixOf(params)) + 1)..Len(k) : k[i] = "*"

\* the key of BadgeParams params for the counts one digit shorter than request
\* q's count
NarrowerKey(q) ==
    PrefixOf(req[q].params) \o [i \in 1..(Len(U64ToString(req[q].views)) - 1) |-> "*"]

\* request r has returned from Shields::fetch with a badge
Rendered(r) == req[r].pc = "done" /\ req[r].status = 200

\* request r has returned from a miss whose template went into the cache
MissDone(r) == Rendered(r) /\ req[r].called

\* this step is request r's cache lookup in Shields::fetch
LookupStep(r) == req[r].pc = "fetch" /\ req'[r].pc # "fetch"

\* this step is the return of request r's shields.io call
RenderStep(r) == req[r].pc = "render" /\ req'[r].pc = "done"

\* since request r returned, a template of another digit width was cached for
\* its BadgeParams
WidthChangedSince(r) ==
    \E k \in req[r].after : IsKeyOf(k, req[r].params) /\ k # KeyOf(r)

\* C7: a shields.io call that fails, by a network error or by a status that is
\* not a success, makes Shields::fetch fail (the request is answered 500) and
\* leaves the cache as it was.
C7_RenderFailureLeavesCache ==
    [][\A r \in Requests :
          (RenderStep(r) /\ req'[r].outcome \in {"network_error", "status_error"})
              => (req'[r].status = 500 /\ cache' = cache)]_vars

\* C8: when a request has been answered with a badge and no template of another
\* digit width has been cached for its BadgeParams since, a later fetch with the
\* same BadgeParams and the same count is a cache hit, makes no shields.io call,
\* and returns the same bytes.
C8_RenderIdempotent ==
    [][\A r1, r2 \in Requests :
          ( /\ r1 # r2
            /\ LookupStep(r2)
            /\ Rendered(r1)
            /\ req[r1].params = req[r2].params
            /\ req[r1].views = req[r2].views
            /\ ~WidthChangedSince(r1) )
              => ( /\ req'[r2].hit
                   /\ ~req'[r2].called
                   /\ req'[r2].badge = req[r1].badge )]_vars

\* a successful miss for a key leaves that key in the cache and the key with one
\* '*' less out of it
EvictsNarrower ==
    \A q \in Requests :
        (RenderStep(q) /\ req'[q].status = 200)
            => /\ KeyOf(q) \in DOMAIN cache'
               /\ NarrowerKey(q) \notin DOMAIN cache'

\* a hit is served from the entry stored under the request's own key
HitServedFromOwnKey ==
    \A r \in Requests :
        (LookupStep(r) /\ req'[r].hit)
            => /\ KeyOf(r) \in DOMAIN cache
               /\ req'[r].template = cache[KeyOf(r)]

\* C9 as stated: once a miss for BadgeParams p at width w has completed, the entry
\* of width w-1 is gone and the entry of width w is present, and every later
\* lookup of a width-(w-1) count for p is a miss that calls shields.io again.
C9_LaterNarrowerRenderMisses ==
    [][ /\ EvictsNarrower
        /\ HitServedFromOwnKey
        /\ \A q, r \in Requests :
              (MissDone(q) /\ LookupStep(r) /\ KeyOf(r) = NarrowerKey(q))
                  => (req'[r].pc = "render" /\ req'[r].called) ]_vars

\* C9 amended: once a miss for BadgeParams p at width w has completed, the entry
\* of width w-1 is gone and the entry of width w is present; a later lookup of a
\* width-(w-1) count for p is a miss that calls shields.io again unless a miss for
\* p at width w-1 has completed in between; a hit is never served from the entry
\* of another width.
C9_WidthTransition ==
    [][ /\ EvictsNarrower
        /\ HitServedFromOwnKey
        /\ \A q, r \in Requests :
              ( /\ MissDone(q)
                /\ LookupStep(r)
                /\ KeyOf(r) = NarrowerKey(q)
                /\ KeyOf(r) \notin req[q].after )
                  => (req'[r].pc = "render" /\ req'[r].called) ]_vars

\* C9 witness: a miss at width w has completed, and a request for a count of
\* width w-1 then looked up the cache, found the width-w entry there and missed
C9_Witness ==
    \E q, r \in Requests :
        /\ MissDone(q)
        /\ req[r].pc = "render"
        /\ req[r].wider
        /\ KeyOf(r) = NarrowerKey(q)
        /\ KeyOf(r) \notin req[q].after

\* C10: the cache never holds more than two entries for one BadgeParams.
C10_AtMostTwoEntriesPerParams ==
    \A params \in Params :
        Cardinality({k \in DOMAIN cache : IsKeyOf(k, params)}) <= 2

\* request r sent the insert operation after its update operation
Onboarded(r) == req[r].ops = <<"update", "insert">>

GetStep(r) == req[r].pc = "new" /\ req'[r].pc # "new"

\* C13: a failure of get_latest_views other than UserNotFound (no response, an
\* unexpected status, a 400 whose message does not say that the user was not
\* found) fails the request on the spot: no onboard call, no second store call,
\* no shields.io call, cache unchanged.  Only a missing record leads to
\* onboarding.
C13_StoreFailureSurfaced ==
    [][ \A r \in Requests :
          /\ (GetStep(r) /\ req'[r].pc = "onboard") => table[req'[r].user] = 0
          /\ (GetStep(r) /\ req'[r].pc = "fetch") =>
                (table[req'[r].user] > 0 /\ req'[r].views = table[req'[r].user] + 1)
          /\ (GetStep(r) /\ req'[r].pc = "done") =>
                /\ req'[r].status = 500
                /\ req'[r].ops = <<"update">>
                /\ ~req'[r].called
                /\ cache' = cache
                /\ table' = table
          /\ (req[r].pc = "done" /\ req[r].status = 500) => req'[r] = req[r] ]_vars

\* C13 witness: a request failed in get_latest_views while the cache held a
\* template and the record of some user existed
C13_Witness ==
    \E r \in Requests :
        /\ req[r].pc = "done" /\ req[r].status = 500
        /\ req[r].ops = <<"update">> /\ req[r].views = 0
        /\ cache # <<>>
        /\ \E u \in Users : table[u] > 0

\* C14: when the increment of a request succeeded and its shields.io call then
\* fails (network error or non-success status), the request fails but the
\* increment stays in the store, so the next get_latest_views for the same user
\* returns a count one higher.
C14_RenderFailureKeepsIncrement ==
    [][ \A r \in Requests :
          /\ (RenderStep(r) /\ req'[r].outcome \in {"network_error", "status_error"})
                => /\ req'[r].status = 500
                   /\ table' = table
                   /\ table[req[r].user] >= req[r].views
          /\ (GetStep(r) /\ req'[r].pc = "fetch") =>
                req'[r].views = table[req'[r].user] + 1 ]_vars

\* the requests that obtained a count for user u
Counted(u) == {r \in Requests : req[r].user = u /\ req[r].views > 0}

CorrectBadge(r) ==
    LET qt == ToQueryStringTemplate(req[r].params, req[r].views)
    IN  Replace(ShieldsIoBody("status_ok", req[r].params, qt[2]), qt[2],
                U64ToString(req[r].views))

\* C16: when two requests missed on the same key (same BadgeParams, same width)
\* and both called shields.io, the cache holds one entry for that key (until a
\* wider one evicts it), which is the whole template one of the misses on that
\* key fetched, and both requests got their correctly substituted badge.
C16_ConcurrentMissesOneEntry ==
    \A r, q \in Requests :
        (r # q /\ MissDone(r) /\ MissDone(q) /\ KeyOf(r) = KeyOf(q)) =>
            /\ \/ KeyOf(r) \in DOMAIN cache
               \/ (KeyOf(r) \o <<"*">>) \in (req[r].after \cup req[q].after)
            /\ KeyOf(r) \in DOMAIN cache =>
                  \E m \in Requests :
                      /\ MissDone(m)
                      /\ KeyOf(m) = KeyOf(r)
                      /\ cache[KeyOf(r)] = req[m].template
            /\ req[r].badge = CorrectBadge(r)
            /\ req[q].badge = CorrectBadge(q)

\* w asterisks
Stars(w) == [i \in 1..w |-> "*"]

\* what shields.io can answer to the query string of BadgeParams params with a
\* message of w asterisks
PlaceholderResponses(params, w) ==
    {ShieldsIoBody(outcome, params, Stars(w)) : outcome \in {"status_ok", "status_error"}}

\* C21: every cache entry whose key has width w holds exactly a response of
\* shields.io to the query of that key's BadgeParams with a message of w
\* asterisks: a miss asks for the placeholder, never for the count, and what is
\* stored is the body as received, never the substituted badge.
C21_CacheHoldsRawTemplate ==
    /\ \A k \in DOMAIN cache :
          \E params \in Params :
              /\ IsKeyOf(k, params)
              /\ cache[k] \in PlaceholderResponses(params, Len(k) - Len(PrefixOf(params)))
    /\ \A r \in Requests :
          MissDone(r) =>
              req[r].template
                  \in PlaceholderResponses(req[r].params, Len(U64ToString(req[r].views)))

\* C21 witness: the cache holds a template of width 2 and requests have been
\* answered from a miss and from a hit
C21_Witness ==
    /\ \E k \in DOMAIN cache, params \in Params :
          IsKeyOf(k, params) /\ Len(k) - Len(PrefixOf(params)) = 2
    /\ \E r, q \in Requests : MissDone(r) /\ Rendered(q) /\ req[q].hit

\* this step is a cache hit of request r
HitStep(r) == LookupStep(r) /\ req'[r].pc = "done"

\* badge is template with no run of Len(padding) asterisks left and everything
\* that is not an asterisk in its place
AllReplaced(template, badge, padding) ==
    /\ Len(badge) = Len(template)
    /\ \A i \in 1..Len(template) : template[i] # "*" => badge[i] = template[i]
    /\ \A i \in 1..(Len(badge) - Len(padding) + 1) :
          SubSeq(badge, i, i + Len(padding) - 1) # padding

\* a cache hit calls nobody, leaves the cache alone and returns the cached
\* template with the placeholder replaced; for a label without asterisks that is
\* the badge shields.io renders for the count itself
HitReturnsSubstituted ==
    \A r \in Requests :
        HitStep(r) =>
            /\ cache' = cache
            /\ ~req'[r].called
            /\ req'[r].status = 200
            /\ req'[r].template = cache[KeyOf(r)]
            /\ AllReplaced(req'[r].template, req'[r].badge, Padding(req[r].views))
            /\ ("*" \notin {req[r].params.label[i] : i \in 1..Len(req[r].params.label)}
                   /\ req'[r].template # <<"Bad Gateway">>)
                  => req'[r].badge = ShieldsIoBody("status_ok", req[r].params,
                                                   U64ToString(req[r].views))

\* a hit and a miss with the same template and count return the same badge
HitEqualsMiss ==
    \A r, m \in Requests :
        ( /\ Rendered(r) /\ req[r].hit
          /\ MissDone(m)
          /\ req[m].template = req[r].template
          /\ req[m].views = req[r].views
          /\ req[m].params = req[r].params )
            => req[m].badge = req[r].badge

\* C22: a cache hit for (params, count) makes no shields.io call, leaves the
\* cache unchanged and returns the cached template with every occurrence of the
\* placeholder replaced by the decimal string of count, which is what the miss
\* path returns for the same template and count.
C22_HitSubstitutes == [][HitReturnsSubstituted]_vars /\ []HitEqualsMiss

\* C22 witness: a hit and a miss with the same template and count were answered
C22_Witness ==
    \E r, m \in Requests :
        /\ Rendered(r) /\ req[r].hit
        /\ MissDone(m)
        /\ req[m].template = req[r].template
        /\ req[m].views = req[r].views
        /\ req[m].params = req[r].params

\* no guard of the cache is held by a request that waits for shields.io (or for
\* anything else), so a request at its lookup can take the read lock
NoGuardAcrossCall ==
    /\ cache_readers = {}
    /\ \A r \in Requests : req[r].pc = "fetch" => ENABLED FetchLookup(r)

\* the return of a shields.io call with a body evicts and inserts in one step
EvictAndInsertAtOnce ==
    \A r \in Requests :
        (RenderStep(r) /\ req'[r].status = 200) =>
            /\ DOMAIN cache' = (DOMAIN cache \ {NarrowerKey(r)}) \cup {KeyOf(r)}
            /\ cache'[KeyOf(r)] = req'[r].template
            /\ \A k \in DOMAIN cache' : k # KeyOf(r) => cache'[k] = cache[k]

\* C23: Shields::fetch holds no lock of the cache while its shields.io call is
\* in flight (the read guard is dropped before the call, the write lock is taken
\* after it), so hits proceed while a miss waits for shields.io, and update_cache
\* evicts and inserts under one write lock.
C23_NoLockAcrossRender == []NoGuardAcrossCall /\ [][EvictAndInsertAtOnce]_vars

\* C23 witness: one request waits for shields.io while another one is about to
\* look up a key that is in the cache
C23_Witness ==
    \E r, q \in Requests :
        /\ req[r].pc = "render"
        /\ req[q].pc = "fetch"
        /\ KeyOf(q) \in DOMAIN cache

\* no fault was injected into a store call and no shields.io call failed
Healthy ==
    \A r \in Requests :
        ~req[r].faulted /\ req[r].outcome \notin {"network_error", "status_error"}

\* C24: with a healthy store and a healthy shields.io every request is answered
\* with its badge, also when several first requests for a user without a record
\* run concurrently.
C24_ConcurrentFirstRequests ==
    Healthy =>
        \A r \in Requests :
            req[r].pc = "done" => (req[r].status = 200 /\ req[r].badge = CorrectBadge(r))

====
